---- MODULE Spec2Model ----
(***************************************************************************)
(* Model of solve.py: the wooden puzzle box solver.                        *)
(*                                                                         *)
(*   - Move / AsciiShape / Piece: the placement generator, as operators    *)
(*     over ascii art (a sequence of words, a word a sequence of one-      *)
(*     character strings) and bit masks (naturals).                        *)
(*   - solveRecursive: as a recursive operator, and as a step machine over *)
(*     an explicit stack of call frames.                                   *)
(*   - solve: the orchestrator loop over itertools.combinations.           *)
(*   - solveWithFixedPieces and test: the two functions main does not call.*)
(***************************************************************************)
EXTENDS Integers, Sequences, FiniteSets, TLC

VARIABLES
    box,        \* the Box handed to Piece(): [x |-> width, y |-> height]
    shape,      \* the ascii art handed to Piece()
    piece,      \* the Piece under construction / constructed, or NoPiece
    pieces,     \* the Piece objects that exist: pieces[p] is the object p
    PIECES,     \* the module-level list PIECES: the name of each of its Pieces,
                \* in list order; the Piece at place p of the list is object p
    args,       \* arguments of the outermost solveRecursive call
    stack,      \* call frames of solveRecursive, outermost first
    ret,        \* value handed from a returning frame to its caller
    pc,         \* position of the running program
    ways,       \* solve: combinations not yet iterated (ways_to_join_gold)
    out,        \* solve: what has been printed, in order
    calls,      \* solve: the candidate lists handed to solveRecursive, in order
    options     \* solveWithFixedPieces: the list options

vars == <<box, shape, piece, pieces, PIECES, args, stack, ret, pc, ways, out, calls, options>>

----------------------------------------------------------------------------
(* Bounds of the model.                                                    *)

MaxBoxX == 3        \* widest box for which placements are generated
MaxBoxY == 3        \* tallest box for which placements are generated
MaxTabs == 1        \* most whitespace glyphs other than ' ' drawn in one shape

----------------------------------------------------------------------------
(* Python values.                                                          *)

\* a returned value is None or a list; None is kept apart from the empty list
None == [isNone |-> TRUE, list |-> <<>>]
List(l) == [isNone |-> FALSE, list |-> l]
Unset == "unset"    \* a variable the running program has not assigned
ValueError == "ValueError"     \* the exception int() raises
Blank == " "
Tab == "\t"
\* the characters str.strip() removes, as far as shapes are drawn with them
Whitespace == {Blank, Tab}
\* the characters shapes are drawn with: the blank, a glyph that is not
\* whitespace, and a whitespace glyph that is not the blank
Chars == {Blank, "#", Tab}

Range(s) == {s[k] : k \in 1..Len(s)}

RECURSIVE BitAnd(_, _)
BitAnd(a, b) ==
    IF a = 0 \/ b = 0 THEN 0
    ELSE (a % 2) * (b % 2) + 2 * BitAnd(a \div 2, b \div 2)

RECURSIVE BitOr(_, _)
BitOr(a, b) ==
    IF a = 0 THEN b
    ELSE IF b = 0 THEN a
    ELSE (IF a % 2 = 1 \/ b % 2 = 1 THEN 1 ELSE 0) + 2 * BitOr(a \div 2, b \div 2)

\* indices of the set bits of a mask, bit 0 the least significant
RECURSIVE BitsFrom(_, _)
BitsFrom(a, k) ==
    IF a = 0 THEN {}
    ELSE (IF a % 2 = 1 THEN {k} ELSE {}) \cup BitsFrom(a \div 2, k + 1)

Bits(a) == BitsFrom(a, 0)

\* ' ' * k  (empty for k <= 0)
Spaces(k) == IF k <= 0 THEN <<>> ELSE [c \in 1..k |-> Blank]

\* int(number, 2) of a string of '0' and '1', given as a sequence of 0 and 1;
\* the empty string is not a literal
RECURSIVE IntBase2(_)
IntBase2(digits) ==
    IF digits = <<>> THEN ValueError
    ELSE IF Len(digits) = 1 THEN digits[1]
    ELSE 2 * IntBase2(SubSeq(digits, 1, Len(digits) - 1)) + digits[Len(digits)]

\* ''.join(words)
RECURSIVE Join(_)
Join(words) ==
    IF words = <<>> THEN <<>> ELSE Head(words) \o Join(Tail(words))

----------------------------------------------------------------------------
(* class Move                                                              *)

\* binary = lambda word: ''.join('0' if x == ' ' else '1' for x in word)
binary(word) == [c \in 1..Len(word) |-> IF word[c] = Blank THEN 0 ELSE 1]

_asMask(art) ==
    IntBase2(Join([r \in 1..Len(art) |-> binary(art[r])]))

\* Move(piece, ascii=..., mask=...)
Move(p, mask) == [piece |-> p, mask |-> mask]

\* fits, comparing the masks instead of intersecting them
fitsUnlessEqual(self, move2) == self.mask # move2.mask

fits(self, move2) == BitAnd(self.mask, move2.mask) = 0

combined(self, move2) == Move(self.piece, BitOr(self.mask, move2.mask))

----------------------------------------------------------------------------
(* class AsciiShape                                                        *)

\* [''.join(reversed(word)) for word in art]
_flipped(art) ==
    [r \in 1..Len(art) |-> [c \in 1..Len(art[r]) |-> art[r][Len(art[r]) + 1 - c]]]

Min(S) == CHOOSE m \in S : \A k \in S : m <= k
Max(S) == CHOOSE m \in S : \A k \in S : m >= k

\* [''.join(x) for x in zip(*art)]: zip stops at the shortest word
_pivoted(art) ==
    IF art = <<>> THEN <<>>
    ELSE [c \in 1..Min({Len(art[r]) : r \in 1..Len(art)}) |->
            [r \in 1..Len(art) |-> art[r][c]]]

rotated(art) == _flipped(_pivoted(art))

rotations(art) ==
    LET r1 == rotated(art)
        r2 == rotated(r1)
        r3 == rotated(r2)
    IN  <<art, r1, r2, r3>>

flips(art) == <<art, _flipped(art)>>

_extend(art, x, y) ==
    LET xgrown == [r \in 1..Len(art) |-> art[r] \o Spaces(x - Len(art[r]))]
        yrows  == IF y <= Len(art) THEN <<>>
                  ELSE [r \in 1..(y - Len(art)) |-> Spaces(x)]
    IN  xgrown \o yrows

\* not word.strip(): strip removes every whitespace character
IsBlankWord(word) == \A c \in 1..Len(word) : word[c] \in Whitespace

\* the loop of rowSlides does not end on art without a non-blank word
RECURSIVE rowSlides(_)
rowSlides(art) ==
    IF IsBlankWord(art[Len(art)])
    THEN <<art>> \o rowSlides(<<art[Len(art)]>> \o SubSeq(art, 1, Len(art) - 1))
    ELSE <<art>>

colSlides(art) ==
    LET slid == rowSlides(_pivoted(art))
    IN  [k \in 1..Len(slid) |-> _pivoted(slid[k])]

translations(art, x, y) ==
    LET shapeAtTopLeft == _extend(art, x, y)
        rows == rowSlides(shapeAtTopLeft)
    IN  Join([k \in 1..Len(rows) |-> colSlides(rows[k])])

----------------------------------------------------------------------------
(* class Piece                                                             *)

\* the set comprehension of Piece._moves, of the Piece object self; Moves are
\* equal iff their masks are
_moves(self, b, art) ==
    LET rots == rotations(art)
        oriented == Join([k \in 1..4 |-> flips(rots[k])])
        placed == Join([k \in 1..Len(oriented) |-> translations(oriented[k], b.x, b.y)])
    IN  {Move(self, _asMask(placed[k])) : k \in 1..Len(placed)}

\* the object self made by Piece(name, box, shape); moves is a set of Moves,
\* each holding the object
Piece(self, name, b, art) ==
    [name |-> name, box |-> b, moves |-> _moves(self, b, art)]

NoPiece == [name |-> Unset, box |-> Unset, moves |-> {}]

----------------------------------------------------------------------------
(* Specification SpecMoves: building one Piece from a shape and a box.     *)

\* boxes at least as wide as tall, as the program's 6 by 5 box is
Boxes == {bx \in [x : 1..MaxBoxX, y : 1..MaxBoxY] : bx.x >= bx.y}

\* number of cells of an art drawn with the glyph ch
Drawn(a, ch) ==
    Cardinality({rc \in (1..Len(a)) \X (1..Len(a[1])) : a[rc[1]][rc[2]] = ch})

\* rectangular art of w by h characters with at least one cell that strip()
\* leaves (rowSlides does not end without one) and at most MaxTabs tabs
Arts(w, h) ==
    {a \in [1..h -> [1..w -> Chars]] :
        /\ \E r \in 1..h : ~IsBlankWord(a[r])
        /\ Drawn(a, Tab) <= MaxTabs}

\* every art that fits, as drawn, in the box b
ShapesFor(b) == UNION {Arts(w, h) : w \in 1..b.x, h \in 1..b.y}

InitMoves ==
    /\ box \in Boxes
    /\ shape \in ShapesFor(box)
    /\ piece = NoPiece
    /\ pieces = <<>>
    /\ PIECES = <<>>
    /\ args = Unset
    /\ stack = <<>>
    /\ ret = Unset
    /\ pc = "build"
    /\ ways = <<>>
    /\ out = <<>>
    /\ calls = <<>>
    /\ options = <<>>

\* Piece.__init__
Construct ==
    /\ pc = "build"
    /\ piece' = Piece(1, "p", box, shape)
    /\ pc' = "built"
    /\ UNCHANGED <<box, shape, pieces, PIECES, args, stack, ret, ways, out, calls, options>>

NextMoves == Construct

SpecMoves == InitMoves /\ [][NextMoves]_vars

----------------------------------------------------------------------------
(* solveRecursive, as the function it computes.                            *)
(* unused_pieces is a sequence of Piece objects.  Iterating the set        *)
(* piece.moves yields its Moves in an order the interpreter chooses: iter  *)
(* maps a Piece object to that order, a sequence holding each Move of the  *)
(* set once.  i is the index of enumerate (from 0), j the position in the  *)
(* iteration of piece.moves (from 1).                                      *)

RECURSIVE solveRecursive(_, _, _, _, _)
RECURSIVE SolveLoop(_, _, _, _, _, _, _)

\* the two nested for loops of solveRecursive, resumed at (i, j)
SolveLoop(iter, board, moves, n, unused_pieces, i, j) ==
    IF i >= Len(unused_pieces) THEN None
    ELSE LET yielded == iter[unused_pieces[i + 1]] IN
         IF j > Len(yielded)
         THEN SolveLoop(iter, board, moves, n, unused_pieces, i + 1, 1)
         ELSE LET move == yielded[j] IN
              IF fits(move, board)
              THEN LET soln == solveRecursive(iter,
                                   combined(board, move),
                                   moves \o <<move>>,
                                   n - 1,
                                   SubSeq(unused_pieces, i + 2, Len(unused_pieces)))
                   IN  IF soln # None
                       THEN List(<<move>> \o soln.list)
                       ELSE SolveLoop(iter, board, moves, n, unused_pieces, i, j + 1)
              ELSE SolveLoop(iter, board, moves, n, unused_pieces, i, j + 1)

solveRecursive(iter, board, moves, n, unused_pieces) ==
    IF n <= 0 THEN List(<<>>)
    ELSE SolveLoop(iter, board, moves, n, unused_pieces, 0, 1)

\* the Moves of S by ascending or by descending mask: two of the orders in
\* which iterating S may yield them
Orders == {"asc", "desc"}

RECURSIVE Sorted(_, _)
Sorted(S, ord) ==
    IF S = {} THEN <<>>
    ELSE LET masks == {m.mask : m \in S}
             pick == IF ord = "asc" THEN Min(masks) ELSE Max(masks)
             first == CHOOSE m \in S : m.mask = pick
         IN  <<first>> \o Sorted(S \ {first}, ord)

----------------------------------------------------------------------------
(* Specification SpecSearch: one call of solveRecursive, run step by step  *)
(* over the stack of its nested calls.                                     *)

MaxCands == 3       \* longest candidate list handed to the outermost call
MaxN == 3           \* largest piece count asked of the outermost call

\* the box of the search model, scaled down from the program's 6 by 5
SearchBox == [x |-> 2, y |-> 2]

Shapes ==
    [ mono   |-> << <<"#">> >>,
      domino |-> << <<"#", "#">> >>,
      ell    |-> << <<"#", "#">>, <<"#", " ">> >>,
      square |-> << <<"#", "#">>, <<"#", "#">> >> ]

Kinds == DOMAIN Shapes

\* BOX = Box(): 6 by 5
BOX == [x |-> 6, y |-> 5]

\* the Piece(name, BOX, shape) constructions of PIECES, as written
Written ==
    << [name |-> "plus", shape |-> << <<" ", "|", " ">>, <<"-", "|", "-">>, <<" ", "|", " ">> >>],
       [name |-> "L", shape |-> << <<"|", " ", " ">>, <<"|", " ", " ">>, <<"+", "-", "-">> >>],
       [name |-> "u", shape |-> << <<"-", "-", "-">>, <<"|", " ", "|">> >>],
       [name |-> "q", shape |-> << <<"+", "+">>, <<"+", "+">>, <<" ", "|">> >>],
       [name |-> "f", shape |-> << <<" ", "|", " ">>, <<"-", "+", "-">>, <<" ", " ", "|">> >>],
       [name |-> "z", shape |-> << <<"-", "-", "+", " ">>, <<" ", " ", "+", "-">> >>],
       [name |-> "p", shape |-> << <<"-", "+", "-", "-">>, <<" ", "|", " ", " ">> >>],
       [name |-> "t", shape |-> << <<"-", "+", "-">>, <<" ", "|", " ">>, <<" ", "|", " ">> >>],
       [name |-> "w", shape |-> << <<"-", "+", " ">>, <<" ", "+", "+">>, <<" ", " ", "|">> >>],
       [name |-> "2", shape |-> << <<"+", " ", " ">>, <<"+", "-", "+">>, <<" ", " ", "|">> >>],
       [name |-> "r", shape |-> << <<"+", "-", "-", "-">>, <<"|", " ", " ", " ">> >>],
       [name |-> "i", shape |-> << <<"-", "-", "-", "-", "-">> >>] >>

\* the shape a piece of a name is drawn with: one of Shapes, or the shape
\* PIECES gives the name
Drawing(name) ==
    IF name \in Kinds THEN Shapes[name]
    ELSE (CHOOSE w \in Range(Written) : w.name = name).shape

\* the Piece objects of a list of Pieces, each known by its place in the list
Objects(names) == [p \in 1..Len(names) |-> p]

\* the objects a list of Piece(name, box, shape) constructions makes
Built(names, b) ==
    [p \in 1..Len(names) |-> Piece(p, names[p], b, Drawing(names[p]))]

\* boards handed to the outermost call: empty, or with two cells taken
Boards == {0, 9}

\* a frame of solveRecursive: its arguments, the index i of enumerate, the
\* Moves the running iteration of piece.moves has yielded, and the loop
\* variable move
Frame(board, moves, n, unused_pieces) ==
    [board |-> board, moves |-> moves, n |-> n,
     unused_pieces |-> unused_pieces, i |-> 0, yielded |-> {}, move |-> Unset]

Top == stack[Len(stack)]
Pop == SubSeq(stack, 1, Len(stack) - 1)

\* Callee, handed unused_pieces[i:] instead of unused_pieces[i+1:]
CalleeKeepsPiece(f, move) ==
    Frame(combined(f.board, move),
          f.moves \o <<move>>,
          f.n - 1,
          SubSeq(f.unused_pieces, f.i + 1, Len(f.unused_pieces)))

\* Callee, handed n instead of n-1
CalleeKeepsCount(f, move) ==
    Frame(combined(f.board, move),
          f.moves \o <<move>>,
          f.n,
          SubSeq(f.unused_pieces, f.i + 2, Len(f.unused_pieces)))

\* the frame the top frame calls at line 281, for its current move
Callee(f, move) ==
    Frame(combined(f.board, move),
          f.moves \o <<move>>,
          f.n - 1,
          SubSeq(f.unused_pieces, f.i + 2, Len(f.unused_pieces)))

CurPiece(f) == pieces[f.unused_pieces[f.i + 1]]

\* the Moves the iterator of line 279 may yield next: iterating a set yields
\* each of its elements once, in an order the interpreter chooses.  Every
\* loop over a set is free to yield them in any order, which covers the one
\* order an interpreter keeps to for a set it does not change.
Yields(f) == CurPiece(f).moves \ f.yielded

\* the frame f once its iterator has yielded move
Iterated(f, move) == [f EXCEPT !.yielded = @ \cup {move}, !.move = move]

InitSearch ==
    /\ box = SearchBox
    /\ shape = Unset
    /\ piece = NoPiece
    /\ \E k \in 0..MaxCands : PIECES \in [1..k -> Kinds]
    /\ pieces = Built(PIECES, box)
    /\ \E b \in Boards, n \in 0..MaxN :
         args = [board |-> Move(Unset, b), moves |-> <<>>, n |-> n,
                 unused_pieces |-> Objects(PIECES)]
    /\ stack = <<Frame(args.board, args.moves, args.n, args.unused_pieces)>>
    /\ ret = None
    /\ pc = "call"
    /\ ways = <<>>
    /\ out = <<>>
    /\ calls = <<>>
    /\ options = <<>>

\* hand value v from the top frame to its caller (or out of the outermost call)
Return(v) ==
    /\ stack' = Pop
    /\ ret' = v
    /\ pc' = IF Len(stack) = 1 THEN "done" ELSE "returned"

\* lines 276-277: the base case
BaseCase ==
    /\ pc = "call"
    /\ Top.n <= 0
    /\ Return(List(<<>>))
    /\ UNCHANGED <<box, shape, piece, pieces, PIECES, args, ways, out, calls, options>>

\* line 278: the loops start
EnterLoop ==
    /\ pc = "call"
    /\ Top.n > 0
    /\ pc' = "loop"
    /\ UNCHANGED <<box, shape, piece, pieces, PIECES, args, stack, ret, ways, out, calls, options>>

\* line 279: the iterator of the current piece is exhausted
NextPiece ==
    /\ pc = "loop"
    /\ Top.i < Len(Top.unused_pieces)
    /\ Yields(Top) = {}
    /\ stack' = [stack EXCEPT ![Len(stack)].i = @ + 1, ![Len(stack)].yielded = {}]
    /\ UNCHANGED <<box, shape, piece, pieces, PIECES, args, ret, pc, ways, out, calls, options>>

\* lines 279-280: the iterator yields a move, and it does not fit
NoFit ==
    /\ pc = "loop"
    /\ Top.i < Len(Top.unused_pieces)
    /\ \E move \in Yields(Top) :
         /\ ~fits(move, Top.board)
         /\ stack' = [stack EXCEPT ![Len(stack)] = Iterated(Top, move)]
    /\ UNCHANGED <<box, shape, piece, pieces, PIECES, args, ret, pc, ways, out, calls, options>>

\* Recurse, with moves.append(move) in place of moves + [move]: the caller and
\* the nested call share one list
RecurseAppendsInPlace ==
    /\ pc = "loop"
    /\ Top.i < Len(Top.unused_pieces)
    /\ \E move \in Yields(Top) :
         /\ fits(move, Top.board)
         /\ stack' = Append([stack EXCEPT ![Len(stack)] =
                                [Iterated(Top, move) EXCEPT !.moves = @ \o <<move>>]],
                            Callee(Top, move))
    /\ pc' = "call"
    /\ UNCHANGED <<box, shape, piece, pieces, PIECES, args, ret, ways, out, calls, options>>

\* lines 279-287: the iterator yields a move, it fits, the nested call starts
Recurse ==
    /\ pc = "loop"
    /\ Top.i < Len(Top.unused_pieces)
    /\ \E move \in Yields(Top) :
         /\ fits(move, Top.board)
         /\ stack' = Append([stack EXCEPT ![Len(stack)] = Iterated(Top, move)],
                            Callee(Top, move))
    /\ pc' = "call"
    /\ UNCHANGED <<box, shape, piece, pieces, PIECES, args, ret, ways, out, calls, options>>

\* lines 288-289: the nested call found a solution
ReturnSoln ==
    /\ pc = "returned"
    /\ ret # None
    /\ Return(List(<<Top.move>> \o ret.list))
    /\ UNCHANGED <<box, shape, piece, pieces, PIECES, args, ways, out, calls, options>>

\* Backtrack, returning the nested call's None instead of going on
BacktrackGivesUp ==
    /\ pc = "returned"
    /\ ret = None
    /\ Return(None)
    /\ UNCHANGED <<box, shape, piece, pieces, PIECES, args, ways, out, calls, options>>

\* line 288: the nested call returned None, the loop goes on
Backtrack ==
    /\ pc = "returned"
    /\ ret = None
    /\ pc' = "loop"
    /\ UNCHANGED <<box, shape, piece, pieces, PIECES, args, stack, ret, ways, out, calls, options>>

\* line 290: every piece is exhausted
ReturnNone ==
    /\ pc = "loop"
    /\ Top.i >= Len(Top.unused_pieces)
    /\ Return(None)
    /\ UNCHANGED <<box, shape, piece, pieces, PIECES, args, ways, out, calls, options>>

NextSearch ==
    \/ BaseCase
    \/ EnterLoop
    \/ NextPiece
    \/ NoFit
    \/ Recurse
    \/ ReturnSoln
    \/ Backtrack
    \/ ReturnNone

SpecSearch == InitSearch /\ [][NextSearch]_vars

\* the interpreter runs the call to its end
SpecSearchFair == SpecSearch /\ WF_vars(NextSearch)

\* the step machine returns None exactly when the function does, under
\* either of its orders
SearchAgrees ==
    pc = "done" =>
        \A iter \in {[name \in DOMAIN pieces |-> Sorted(pieces[name].moves, ord)] :
                        ord \in Orders} :
            (ret = None) <=>
                (solveRecursive(iter, args.board, args.moves, args.n,
                                args.unused_pieces) = None)

----------------------------------------------------------------------------
(* Specifications SpecSolve and SpecSolveScaled: the orchestrator solve(). *)

NumPieces == 12     \* pieces in PIECES
LayerPieces == 6    \* pieces asked of solveRecursive for one layer
JoinGold == 5       \* pieces that join gold in a layer-1 group
MaxShort == 8       \* longest PIECES shorter than the program's twelve
MaxMixed == 7       \* longest PIECES that holds both squares and monos
MaxSquares == 1     \* most squares in a PIECES that holds both
MaxCut == 5         \* most pieces of the program's PIECES run in the program's box

\* itertools.combinations(seq, r), in the order the iterator yields them
RECURSIVE combinations(_, _)
combinations(seq, r) ==
    IF r = 0 THEN << <<>> >>
    ELSE IF Len(seq) < r THEN <<>>
    ELSE LET withHead == combinations(Tail(seq), r - 1)
         IN  [k \in 1..Len(withHead) |-> <<Head(seq)>> \o withHead[k]]
             \o combinations(Tail(seq), r)

\* [p for p in seq if p not in option]
RECURSIVE NotIn(_, _)
NotIn(seq, option) ==
    IF seq = <<>> THEN <<>>
    ELSE (IF Head(seq) \in Range(option) THEN <<>> ELSE <<Head(seq)>>)
         \o NotIn(Tail(seq), option)

\* seq without the first of its elements equal to v
RECURSIVE Without(_, _)
Without(seq, v) ==
    IF seq = <<>> THEN <<>>
    ELSE IF Head(seq) = v THEN Tail(seq)
    ELSE <<Head(seq)>> \o Without(Tail(seq), v)

\* every permutation of seq: one of its elements first, then a permutation
\* of the others
RECURSIVE Orderings(_)
Orderings(seq) ==
    IF seq = <<>> THEN {<<>>}
    ELSE UNION {{<<v>> \o rest : rest \in Orderings(Without(seq, v))}
                : v \in Range(seq)}

\* outcomes of random.shuffle(seq): any permutation of seq
Shuffles(seq) == Orderings(seq)

\* the box of the orchestrator model, scaled down from the program's 6 by 5
SolveBox == [x |-> 3, y |-> 2]

\* a value returned by solveRecursive, each Move of a list kept as its piece:
\* the part of the value that does not depend on the order in which the sets
\* of Moves are iterated when the call is asked for as many pieces as it is
\* handed or more
PiecesPlaced(soln) ==
    IF soln = None THEN None
    ELSE List([k \in 1..Len(soln.list) |-> soln.list[k].piece])

\* one printed report; the boards are printed Move by Move and kept as the
\* pieces of the Moves
Printed(text, names, board1, board2) ==
    [text |-> text, names |-> names, board1 |-> board1, board2 |-> board2]

\* one call of solveRecursive made by solve, with the line that makes it
Called(line, unused_pieces, result) ==
    [line |-> line, unused_pieces |-> unused_pieces, result |-> result]

\* a PIECES of k pieces: sq squares, then monos
KindsOf(k, sq) == [p \in 1..k |-> IF p <= sq THEN "square" ELSE "mono"]

\* lines 196-213: BOX and PIECES as written, the state in which main calls
\* solve
InitSolve ==
    /\ box = BOX
    /\ PIECES = [p \in 1..NumPieces |-> Written[p].name]
    /\ shape = Unset
    /\ piece = NoPiece
    /\ pieces = Built(PIECES, box)
    /\ args = Unset
    /\ stack = <<>>
    /\ ret = Unset
    /\ pc = "start"
    /\ ways = <<>>
    /\ out = <<>>
    /\ calls = <<>>
    /\ options = <<>>

\* solve entered with other lists in PIECES, on which its runs can be
\* enumerated.  Either the program's box with the first pieces of the
\* program's PIECES, up to MaxCut of them, as written; or the scaled box with
\* up to MaxShort pieces or the program's twelve: all monos, all squares, or
\* (up to MaxMixed pieces) monos and up to MaxSquares squares.
InitSolveScaled ==
    /\ \/ /\ box = BOX
          /\ \E k \in 0..MaxCut : PIECES = [p \in 1..k |-> Written[p].name]
       \/ /\ box = SolveBox
          /\ \E k \in (0..MaxShort) \cup {NumPieces} : \E sq \in 0..k :
               /\ sq = 0 \/ sq = k \/ (k <= MaxMixed /\ sq <= MaxSquares)
               /\ PIECES = KindsOf(k, sq)
    /\ shape = Unset
    /\ piece = NoPiece
    /\ pieces = Built(PIECES, box)
    /\ args = Unset
    /\ stack = <<>>
    /\ ret = Unset
    /\ pc = "start"
    /\ ways = <<>>
    /\ out = <<>>
    /\ calls = <<>>
    /\ options = <<>>

\* gold = PIECES[0]
gold == Objects(PIECES)[1]
initialBoard == Move(gold, 0)

\* lines 233-241 on an empty PIECES: PIECES[0] raises IndexError
StartCrash ==
    /\ pc = "start"
    /\ PIECES = <<>>
    /\ pc' = "crashed"
    /\ UNCHANGED <<box, shape, piece, pieces, PIECES, args, stack, ret, ways, out, calls, options>>

\* lines 233-241: shuffle, pick gold, build the iterator of combinations.
\* The shuffle moves the Pieces within the list; each is known by its place
\* in the shuffled list from here on.
Start ==
    /\ pc = "start"
    /\ PIECES # <<>>
    /\ PIECES' \in Shuffles(PIECES)
    /\ pieces' = Built(PIECES', box)
    /\ ways' = combinations(Tail(Objects(PIECES')), JoinGold)
    /\ pc' = "loop"
    /\ UNCHANGED <<box, shape, piece, args, stack, ret, out, calls, options>>

\* lines 242-263: one iteration of the for loop over ways_to_join_gold.  Each
\* search is taken whole, under an order of iteration of every set of Moves;
\* what is kept of its result is the same under all of them.
Iterate ==
    /\ pc = "loop"
    /\ ways # <<>>
    /\ \E iter \in {[name \in DOMAIN pieces |-> Sorted(pieces[name].moves, ord)] :
                        ord \in Orders} :
       LET option == Head(ways) \o <<gold>>
           debug_names == [k \in 1..Len(option) |-> pieces[option[k]].name]
           soln == PiecesPlaced(
                       solveRecursive(iter, initialBoard, <<>>, LayerPieces, option))
           rest == NotIn(Objects(PIECES), option)
           soln2 == PiecesPlaced(
                        solveRecursive(iter, initialBoard, <<>>, LayerPieces, rest))
       IN  IF soln # None
           THEN /\ calls' = calls \o <<Called(245, option, soln), Called(248, rest, soln2)>>
                /\ IF soln2 # None
                   THEN out' = out \o
                          <<Printed("Solved board 1", debug_names, <<>>, <<>>),
                            Printed("and solved board 2", <<>>, soln.list, soln2.list)>>
                   ELSE out' = out \o
                          <<Printed("Solved board 1", debug_names, <<>>, <<>>),
                            Printed("but no solution otherwise", <<>>, <<>>, <<>>)>>
           ELSE /\ calls' = Append(calls, Called(245, option, soln))
                /\ out' = Append(out, Printed("No solution for", debug_names, <<>>, <<>>))
    /\ ways' = Tail(ways)
    /\ UNCHANGED <<box, shape, piece, pieces, PIECES, args, stack, ret, pc, options>>

\* the iterator is exhausted: solve falls off its end and returns None
Finish ==
    /\ pc = "loop"
    /\ ways = <<>>
    /\ ret' = None
    /\ pc' = "done"
    /\ UNCHANGED <<box, shape, piece, pieces, PIECES, args, stack, ways, out, calls, options>>

NextSolve ==
    \/ StartCrash
    \/ Start
    \/ Iterate
    \/ Finish

\* the program as main runs it.  Its shuffle has 12! outcomes and each of its
\* 462 searches is over pentominoes in the 6 by 5 box: its behaviours are
\* not enumerated.
SpecSolve == InitSolve /\ [][NextSolve]_vars

\* solve on the lists of InitSolveScaled
SpecSolveScaled == InitSolveScaled /\ [][NextSolve]_vars

----------------------------------------------------------------------------
(* Printing a Move: Move.toAsciiShape, AsciiShape.__str__.  A printed text *)
(* is a sequence of one-character strings.                                 *)

Dot == "."
Newline == "\n"

\* sep.join(words)
RECURSIVE JoinWith(_, _)
JoinWith(sep, words) ==
    IF words = <<>> THEN <<>>
    ELSE IF Len(words) = 1 THEN words[1]
    ELSE words[1] \o sep \o JoinWith(sep, Tail(words))

\* bin(v)[2:]: the binary digits of v, without leading zeros
RECURSIVE bin(_)
bin(v) == IF v < 2 THEN <<v>> ELSE bin(v \div 2) \o <<v % 2>>

\* leftpad + string of toAsciiShape, of the low x bits of number; char is a
\* string of one character.  Every '1' becomes char and then every '0' a
\* blank, a '0' that came in as char too.
RowOf(number, x, char) ==
    LET digits == bin(number % (2 ^ x))
        marked == [c \in 1..Len(digits) |-> IF digits[c] = 1 THEN char ELSE "0"]
        string == [c \in 1..Len(marked) |-> IF marked[c] = "0" THEN Blank ELSE marked[c]]
    IN  Spaces(x - Len(string)) \o string

\* the first loop of toAsciiShape: one word for every x bits of number, until
\* number is used up, the word of the low bits last
RECURSIVE RowsOf(_, _, _)
RowsOf(number, x, char) ==
    IF number = 0 THEN <<>>
    ELSE RowsOf(number \div (2 ^ x), x, char) \o <<RowOf(number, x, char)>>

\* self.toAsciiShape(char): the art of the mask in the box of the Move's
\* piece; in a box of no width rowmask is int('', 2)
toAsciiShape(self, char) ==
    LET x == pieces[self.piece].box.x
        y == pieces[self.piece].box.y
        art == RowsOf(self.mask, x, char)
        blankRows == IF Len(art) < y THEN [r \in 1..(y - Len(art)) |-> Spaces(x)]
                     ELSE <<>>
    IN  IF x = 0 THEN ValueError ELSE blankRows \o art

\* AsciiShape.__str__
strShape(art) ==
    LET width == Len(art[1])
        border == <<"+">> \o [c \in 1..width |-> "-"] \o <<"+">>
        result == <<<<Newline>>, border>>
                  \o [r \in 1..Len(art) |-> <<"|">> \o art[r] \o <<"|">>]
                  \o <<border, <<Newline>>>>
    IN  JoinWith(<<Newline>>, result)

\* Move.__str__ and Move.__repr__
str(self) == strShape(toAsciiShape(self, Dot))

\* str of a list of Moves
strList(moves) ==
    <<"[">> \o JoinWith(<<",", Blank>>, [k \in 1..Len(moves) |-> str(moves[k])])
    \o <<"]">>

\* one print statement: what it prints, and the value printed
Wrote(text, value) == [text |-> text, value |-> value]

\* every order in which iterating the set S of Moves may yield them
Iterations(S) == Orderings(Sorted(S, "asc"))

----------------------------------------------------------------------------
(* Specification SpecFixed: solveWithFixedPieces(box, pieces), which main  *)
(* does not call.                                                          *)

MaxFixed == 2       \* longest list of pieces handed to solveWithFixedPieces

InitFixed ==
    /\ box = SearchBox
    /\ shape = Unset
    /\ piece = NoPiece
    /\ \E k \in 0..MaxFixed : PIECES \in [1..k -> Kinds]
    /\ pieces = Built(PIECES, box)
    /\ args = [box |-> box, pieces |-> Objects(PIECES)]
    /\ stack = <<>>
    /\ ret = Unset
    /\ pc = "fixed"
    /\ ways = <<>>
    /\ out = <<>>
    /\ calls = <<>>
    /\ options = <<>>

\* one element of a list of options
Option(stage, trail) == [stage |-> stage, trail |-> trail]

\* lines 297-300 on an empty list of pieces: pieces[0] raises IndexError
FixedCrash ==
    /\ pc = "fixed"
    /\ args.pieces = <<>>
    /\ pc' = "crashed"
    /\ UNCHANGED <<box, shape, piece, pieces, PIECES, args, stack, ret, ways, out, calls, options>>

\* lines 297-300: the root option is a blank board
FixedStart ==
    /\ pc = "fixed"
    /\ args.pieces # <<>>
    /\ options' = << <<Option(Move(args.pieces[1], 0), <<>>)>> >>
    /\ pc' = "adding"
    /\ UNCHANGED <<box, shape, piece, pieces, PIECES, args, stack, ret, ways, out, calls>>

\* lines 305-309 for one move: the options of last that move fits, each with
\* move made
Extended(move, last) ==
    LET fitting == SelectSeq(last, LAMBDA o : fits(move, o.stage))
    IN  [k \in 1..Len(fitting) |->
            Option(combined(move, fitting[k].stage), fitting[k].trail \o <<move>>)]

\* lines 301-310: one iteration of the loop over pieces, the set piece.moves
\* iterated in one of its orders
AddPiece ==
    /\ pc = "adding"
    /\ Len(options) <= Len(args.pieces)
    /\ LET p == pieces[args.pieces[Len(options)]]
           last == options[Len(options)]
       IN  /\ out' = Append(out, Wrote("Adding piece %s", p.name))
           /\ \E yielded \in Iterations(p.moves) :
                options' = Append(options,
                    Join([j \in 1..Len(yielded) |-> Extended(yielded[j], last)]))
    /\ UNCHANGED <<box, shape, piece, pieces, PIECES, args, stack, ret, pc, ways, calls>>

\* lines 311-314: the first of the last options is printed
FixedReport ==
    /\ pc = "adding"
    /\ Len(options) > Len(args.pieces)
    /\ options[Len(options)] # <<>>
    /\ LET winners == options[Len(options)]
           stage == winners[1].stage
           trail == winners[1].trail
       IN  out' = out \o <<Wrote("%d winners!", Len(winners)),
                           Wrote("stage", str(stage)),
                           Wrote("trail", strList(trail))>>
    /\ ret' = None
    /\ pc' = "done"
    /\ UNCHANGED <<box, shape, piece, pieces, PIECES, args, stack, ways, calls, options>>

\* lines 311-312 with no option left: options[-1][0] raises IndexError
FixedReportCrash ==
    /\ pc = "adding"
    /\ Len(options) > Len(args.pieces)
    /\ options[Len(options)] = <<>>
    /\ out' = Append(out, Wrote("%d winners!", 0))
    /\ pc' = "crashed"
    /\ UNCHANGED <<box, shape, piece, pieces, PIECES, args, stack, ret, ways, calls, options>>

NextFixed ==
    \/ FixedCrash
    \/ FixedStart
    \/ AddPiece
    \/ FixedReport
    \/ FixedReportCrash

SpecFixed == InitFixed /\ [][NextFixed]_vars

----------------------------------------------------------------------------
(* Specification SpecTest: test(), which main does not call.               *)

Cross == << <<" ", "|", " ">>, <<"-", "-", "-">>, <<" ", "|", " ">> >>

InitTest ==
    /\ box = Unset
    /\ shape = Unset
    /\ piece = NoPiece
    /\ pieces = <<>>
    /\ PIECES = <<>>
    /\ args = Unset
    /\ stack = <<>>
    /\ ret = Unset
    /\ pc = "test"
    /\ ways = <<>>
    /\ out = <<>>
    /\ calls = <<>>
    /\ options = <<>>

\* the frame of test: the Moves the iteration of x.moves has yielded, and the
\* loop variable move
TestFrame == [yielded |-> {}, move |-> Unset]

\* lines 322-323: the box and the cross
TestBuild ==
    /\ pc = "test"
    /\ box' = BOX
    /\ shape' = Cross
    /\ piece' = Piece(1, "cross", BOX, Cross)
    /\ pieces' = <<piece'>>
    /\ stack' = <<TestFrame>>
    /\ pc' = "print"
    /\ UNCHANGED <<PIECES, args, ret, ways, out, calls, options>>

\* lines 324-325: the iterator of x.moves yields a move, and it is printed
TestPrint ==
    /\ pc = "print"
    /\ \E move \in piece.moves \ Top.yielded :
         /\ stack' = <<Iterated(Top, move)>>
         /\ out' = Append(out, Wrote("move", str(move)))
    /\ UNCHANGED <<box, shape, piece, pieces, PIECES, args, ret, pc, ways, calls, options>>

\* line 324: the iterator is exhausted, test returns
TestReturn ==
    /\ pc = "print"
    /\ piece.moves \ Top.yielded = {}
    /\ stack' = <<>>
    /\ ret' = None
    /\ pc' = "done"
    /\ UNCHANGED <<box, shape, piece, pieces, PIECES, args, ways, out, calls, options>>

NextTest ==
    \/ TestBuild
    \/ TestPrint
    \/ TestReturn

SpecTest == InitTest /\ [][NextTest]_vars

----------------------------------------------------------------------------
(* Properties of the placement generator (SpecMoves).                      *)

\* number of non-blank cells of an art
CellCount(art) ==
    Cardinality({rc \in (1..Len(art)) \X (1..Len(art[1])) : art[rc[1]][rc[2]] # Blank})

MoveMasks(p) == {m.mask : m \in p.moves}

\* C6: every move of a piece built from a shape that fits in the box has as
\* many set bits as the shape has non-blank cells, and no set bit at an index
\* above width*height-1.
C6_PlacementInvariant ==
    pc = "built" =>
        \A m \in MoveMasks(piece) :
            /\ Cardinality(Bits(m)) = CellCount(shape)
            /\ \A b \in Bits(m) : b <= box.x * box.y - 1

\* the cells of an art as (row, column) pairs
Cells(art) ==
    {rc \in (1..Len(art)) \X (1..Len(art[1])) : art[rc[1]][rc[2]] # Blank}

\* a set of cells moved so that its bounding box starts at (0, 0)
Normalised(cells) ==
    LET r0 == Min({rc[1] : rc \in cells})
        c0 == Min({rc[2] : rc \in cells})
    IN  {<<rc[1] - r0, rc[2] - c0>> : rc \in cells}

QuarterTurn(cells) == Normalised({<<rc[2], 0 - rc[1]>> : rc \in cells})
Mirrored(cells) == Normalised({<<rc[1], 0 - rc[2]>> : rc \in cells})

\* the 4 rotations of a set of cells, each unmirrored and mirrored
Orientations(cells) ==
    LET q0 == Normalised(cells)
        q1 == QuarterTurn(q0)
        q2 == QuarterTurn(q1)
        q3 == QuarterTurn(q2)
    IN  {q0, q1, q2, q3, Mirrored(q0), Mirrored(q1), Mirrored(q2), Mirrored(q3)}

Pow2(k) == IF k = 0 THEN 1 ELSE 2 ^ k

\* the row-major mask of cells at offset (dx, dy) in an x by y grid; the
\* first cell of the first row is the most significant of the x*y bits
MaskAt(cells, dx, dy, x, y) ==
    LET idx == {x * y - 1 - ((rc[1] + dy) * x + rc[2] + dx) : rc \in cells}
        RECURSIVE Sum(_)
        Sum(S) == IF S = {} THEN 0
                  ELSE LET e == CHOOSE e \in S : TRUE IN Pow2(e) + Sum(S \ {e})
    IN  Sum(idx)

\* the reference set of C7
ReferenceMasks(art, x, y) ==
    UNION { LET w == Max({rc[2] : rc \in o}) + 1
                h == Max({rc[1] : rc \in o}) + 1
            IN  {MaskAt(o, dx, dy, x, y) : dx \in 0..(x - w), dy \in 0..(y - h)}
          : o \in Orientations(Cells(art)) }

\* C7: the masks of piece.moves are exactly the row-major masks of the shape
\* in its 4 rotations, unmirrored and mirrored, at every offset that keeps
\* the bounding box inside the grid, each mask once.
C7_PlacementSetIsReference ==
    pc = "built" =>
        /\ MoveMasks(piece) = ReferenceMasks(shape, box.x, box.y)
        /\ Cardinality(MoveMasks(piece)) = Cardinality(piece.moves)

\* the art is drawn tightly, with no whitespace but the blank, and fits the
\* box in every rotation
FitsTurned(art, b) ==
    /\ Drawn(art, Tab) = 0
    /\ Len(art) <= b.x /\ Len(art) <= b.y
    /\ Len(art[1]) <= b.x /\ Len(art[1]) <= b.y
    /\ Normalised({<<rc[1] - 1, rc[2] - 1>> : rc \in Cells(art)})
         = {<<rc[1] - 1, rc[2] - 1>> : rc \in Cells(art)}
    /\ Max({rc[1] : rc \in Cells(art)}) = Len(art)
    /\ Max({rc[2] : rc \in Cells(art)}) = Len(art[1])

\* on such art the generator does meet both statements
MovesRightWhenTurnedFits ==
    pc = "built" /\ FitsTurned(shape, box) =>
        /\ \A m \in MoveMasks(piece) :
             /\ Cardinality(Bits(m)) = CellCount(shape)
             /\ \A b \in Bits(m) : b <= box.x * box.y - 1
        /\ MoveMasks(piece) = ReferenceMasks(shape, box.x, box.y)
        /\ Cardinality(MoveMasks(piece)) = Cardinality(piece.moves)

----------------------------------------------------------------------------
(* Properties of the layer search (SpecSearch).                            *)

Grid == 0..(box.x * box.y - 1)

\* bits of the masks of a list of moves, taken together
UnionBits(moves) == UNION {Bits(moves[k].mask) : k \in 1..Len(moves)}

Disjoint(moves) ==
    \A a, b \in 1..Len(moves) :
        a # b => Bits(moves[a].mask) \cap Bits(moves[b].mask) = {}

\* position of a piece in the candidate list of the outermost call
PosOf(p) == CHOOSE k \in 1..Len(args.unused_pieces) : args.unused_pieces[k] = p

\* every candidate move has c cells, all of them in the grid
UniformPieces(c) ==
    \A k \in 1..Len(args.unused_pieces) :
        \A m \in MoveMasks(pieces[args.unused_pieces[k]]) :
            Cardinality(Bits(m)) = c /\ Bits(m) \subseteq Grid

\* C1: a returned solution is a list of exactly n moves, each of a different
\* candidate piece, none sharing a bit with the board or with another move
\* of the solution; n pieces of c cells with n*c the size of the grid, on an
\* empty board, cover every cell of the grid.
C1_Soundness ==
    pc = "done" /\ ret # None =>
        LET soln == ret.list IN
        /\ Len(soln) = args.n
        /\ \A k \in 1..Len(soln) :
             /\ soln[k].piece \in Range(args.unused_pieces)
             /\ soln[k] \in pieces[soln[k].piece].moves
             /\ Bits(soln[k].mask) \cap Bits(args.board.mask) = {}
        /\ \A a, b \in 1..Len(soln) : a # b => soln[a].piece # soln[b].piece
        /\ Disjoint(soln)
        /\ \A c \in 1..(box.x * box.y) :
             args.board.mask = 0 /\ UniformPieces(c) /\ args.n * c = box.x * box.y
                => UnionBits(soln) = Grid

\* a solution that fills the empty grid
C1_Witness ==
    /\ pc = "done" /\ ret # None
    /\ args.board.mask = 0 /\ args.n >= 2
    /\ UnionBits(ret.list) = Grid

\* some choice of n of the pieces in S, one move each, pairwise disjoint and
\* disjoint from the occupied cells
RECURSIVE Selectable(_, _, _)
Selectable(occupied, n, S) ==
    IF n <= 0 THEN TRUE
    ELSE \E name \in S : \E m \in MoveMasks(pieces[name]) :
            /\ Bits(m) \cap occupied = {}
            /\ Selectable(occupied \cup Bits(m), n - 1, S \ {name})

\* C2: the call returns None exactly when no n distinct candidate pieces can
\* be placed, one move each, without overlapping each other or the board.
C2_Completeness ==
    pc = "done" =>
        (ret = None <=>
            ~Selectable(Bits(args.board.mask), args.n, Range(args.unused_pieces)))

\* a search that placed pieces, backed out of all of them and returned None
C2_Witness ==
    /\ pc = "done" /\ ret = None
    /\ args.n >= 2 /\ Len(args.unused_pieces) >= args.n
    /\ \E m \in MoveMasks(pieces[args.unused_pieces[1]]) :
           Bits(m) \cap Bits(args.board.mask) = {}

\* C8: a nested call is handed exactly the candidates after the piece just
\* placed, in the same order, and a count one smaller; along a branch the
\* placed pieces are in strictly increasing candidate order.
C8_NoRevisit ==
    /\ \A k \in 2..Len(stack) :
         LET caller == stack[k - 1] IN
         /\ stack[k].unused_pieces
              = SubSeq(caller.unused_pieces, caller.i + 2, Len(caller.unused_pieces))
         /\ stack[k].n = caller.n - 1
         /\ stack[k].moves[Len(stack[k].moves)].piece
              = caller.unused_pieces[caller.i + 1]
    /\ \A k \in 1..Len(stack) :
         \A a, b \in 1..Len(stack[k].moves) :
             a < b => PosOf(stack[k].moves[a].piece) < PosOf(stack[k].moves[b].piece)

\* a call nested two deep, made for a piece that is not its caller's first candidate
C8_Witness ==
    /\ Len(stack) >= 3
    /\ stack[Len(stack) - 1].i >= 1

\* C9: the call ends, and no branch nests more placements than n: every
\* nested call has a count one smaller and a shorter candidate list.
C9_Termination ==
    /\ <>(pc = "done")
    /\ [](/\ Len(stack) <= args.n + 1
          /\ \A k \in 1..Len(stack) : Len(stack[k].moves) <= args.n
          /\ \A k \in 2..Len(stack) :
                /\ stack[k].n = stack[k - 1].n - 1
                /\ Len(stack[k].unused_pieces) < Len(stack[k - 1].unused_pieces))

\* a branch that has nested as many placements as asked for
C9_Witness ==
    /\ args.n >= 2
    /\ Len(stack) = args.n + 1
    /\ Len(args.unused_pieces) > args.n

\* the arguments of every frame that stays on the stack stay what they were
FramesKept ==
    \A k \in 1..Len(stack) :
        k <= Len(stack') =>
            /\ stack'[k].board = stack[k].board
            /\ stack'[k].moves = stack[k].moves
            /\ stack'[k].unused_pieces = stack[k].unused_pieces
            /\ stack'[k].n = stack[k].n

\* the board of a frame is the initial board ORed with the moves of its branch
BoardIsBranchUnion ==
    \A k \in 1..Len(stack) :
        /\ Bits(stack[k].board.mask)
             = Bits(args.board.mask) \cup UnionBits(stack[k].moves)
        /\ Len(stack[k].moves) = k - 1
        /\ \A a \in 1..Len(stack[k].moves) : a < k - 1 =>
               stack[k].moves[a] = stack[k - 1].moves[a]

\* C10: a call never changes the board, the moves or the candidates it was
\* given, so a caller whose nested call returned None goes on with what it
\* had; the board of every call is the initial board ORed with the moves of
\* the current branch only.
C10_NoSharedState ==
    /\ [][FramesKept]_vars
    /\ []BoardIsBranchUnion

\* a nested call of a nested call has just returned None to its caller
C10_Witness ==
    /\ pc = "returned" /\ ret = None
    /\ Len(stack) >= 2

----------------------------------------------------------------------------
(* Properties of the orchestrator (SpecSolveScaled).                       *)

\* a two-layer solution has been printed
FullySolved == \E k \in 1..Len(out) : out[k].text = "and solved board 2"

\* C3: once a layer-1 group and its complement are both solved, solve
\* returns; no further candidate list is searched after that.
C3_FirstFound == [][FullySolved => calls' = calls /\ out' = out]_vars

\* C5: a run that finds no two-layer solution ends, does not crash, and
\* reports that no solution was found.
C5_ExhaustionReported ==
    /\ pc # "crashed"
    /\ pc = "done" /\ ~FullySolved =>
         \E k \in 1..Len(out) :
             out[k].text \in {"No solution for", "but no solution otherwise"}

Layer1Calls == {k \in 1..Len(calls) : calls[k].line = 245}
Group(k) == Range(calls[k].unused_pieces)
NoRepeats(seq) == Cardinality(Range(seq)) = Len(seq)
PiecesOf(placed) == Range(placed)

\* The split enumeration, on the lists of InitSolveScaled: every layer-1 candidate
\* list is gold plus 5 of the other pieces, every such group is searched
\* exactly once, a layer-2 candidate list is exactly the pieces outside the
\* layer-1 group just solved (6 of them when there are 12 pieces), no split
\* is searched in both orientations, and a printed two-layer solution uses
\* every piece exactly once.  Of the runs on 12 pieces the lists hold those in
\* which every group is solved and those in which none is; the runs in which
\* some groups are solved are on 7 pieces.
SplitEnumeration ==
    pc \in {"loop", "done"} =>
        /\ \A k \in 1..Len(calls) :
             LET g == calls[k].unused_pieces IN
             IF calls[k].line = 245
             THEN /\ Len(g) = 6 /\ NoRepeats(g)
                  /\ g[6] = gold
                  /\ Range(SubSeq(g, 1, 5)) \subseteq Range(Tail(Objects(PIECES)))
             ELSE /\ k > 1
                  /\ calls[k - 1].line = 245
                  /\ calls[k - 1].result # None
                  /\ NoRepeats(g)
                  /\ Range(g) = Range(Objects(PIECES)) \ Group(k - 1)
                  /\ Len(PIECES) = 12 => Len(g) = 6
        /\ \A k \in 1..Len(out) :
             out[k].text = "and solved board 2" =>
                 /\ Len(out[k].board1) = 6 /\ Len(out[k].board2) = 6
                 /\ Cardinality(PiecesOf(out[k].board1)) = 6
                 /\ Cardinality(PiecesOf(out[k].board2)) = 6
                 /\ PiecesOf(out[k].board1) \cap PiecesOf(out[k].board2) = {}
                 /\ PiecesOf(out[k].board1) \cup PiecesOf(out[k].board2)
                      = Range(Objects(PIECES))
        /\ pc = "done" =>
             LET groups == {Group(k) : k \in Layer1Calls}
                 all == Range(Objects(PIECES))
             IN  /\ Cardinality(groups) = Cardinality(Layer1Calls)
                 /\ \A g \in groups : (all \ g) \notin groups
                 /\ groups = {S \cup {gold} : S \in {T \in SUBSET Range(Tail(Objects(PIECES))) :
                                                       Cardinality(T) = 5}}

====
